---------------------------- MODULE Spec2Model ----------------------------
(***************************************************************************)
(* A model of overlapnanny: the outline roughness metric ("wonkiness",      *)
(* src/src/wonkiness.rs), the path builder and the conversion to and from   *)
(* the path-boolean backend (src/src/bezpen.rs), and the per-glyph          *)
(* comparison loop (src/src/main.rs).                                       *)
(*                                                                         *)
(* Numbers.  Scores, curvatures, lengths and angles are real quantities     *)
(* that the program holds in f32/f64.  The model computes them exactly, in  *)
(* integers: angles in hundredths of a degree (Pi = 18000), a score in      *)
(* units of 1/Scale of an angle unit per length unit, a percentage as a     *)
(* reduced fraction.  IEEE rounding is not modelled; IEEE's division by     *)
(* zero (+inf, NaN) is.  Coordinates keep the two widths the program uses:  *)
(* an f32 coordinate is the integer m, an f64 coordinate is counted in      *)
(* units F64PerF32 times finer, so widening multiplies and narrowing        *)
(* rounds.                                                                 *)
(*                                                                         *)
(* Geometry.  kurbo's arclen, curvature and derivative of a segment are     *)
(* library code.  The model records, for every path element, the answers    *)
(* kurbo gives for the segment that the element draws (its "shape": arc     *)
(* length, tangent and curvature at t = 0.05 and t = 0.95) in the variable  *)
(* geom, parallel to path, and wonkiness reads them from there.             *)
(***************************************************************************)
EXTENDS Integers, Sequences, FiniteSets, TLC

VARIABLES
    dom,        \* which outline repertoire the glyph source draws from
    path,       \* Paths.path: the BezPath being drawn (sequence of PathEl)
    geom,       \* the shape of the segment each element of path draws
    pc,         \* position in the per-glyph pipeline
    cleaned,    \* Paths::wonkiness: the subpaths the path was split into
    report,     \* wonkiness: what it computed for each subpath
    total,      \* Paths::wonkiness: the returned score
    verbs,      \* the backend path's verb buffer
    points,     \* the backend path's point buffer
    backend,    \* what skia_safe::simplify returned: "None" or "Some"
    vi,         \* skia_path_to_bezpath: verbs walked so far
    i,          \* skia_path_to_bezpath: the point index i
    reads,      \* skia_path_to_bezpath: the point indices read so far
    bez,        \* skia_path_to_bezpath: the BezPath under construction
    simple,     \* remove_overlaps: the path of the returned Paths
    font,       \* test_font: the glyphs of the font, by glyph id
    glyphset,   \* test_font: glyphs_to_check
    tolerance,  \* test_font: the tolerance ratio, in percent
    gid,        \* test_font: the glyph id the loop is at
    fpc,        \* test_font: "loop", "done" or "panic"
    output,     \* test_font: the lines printed
    compared,   \* test_font: the glyph ids compare_glyph returned for
    last        \* the latest compare_glyph call: inputs and result

vars == <<dom, path, geom, pc, cleaned, report, total, verbs, points, backend,
          vi, i, reads, bez, simple, font, glyphset, tolerance, gid, fpc,
          output, compared, last>>

pipeVars == <<dom, path, geom, pc, cleaned, report, total, verbs, points,
              backend, vi, i, reads, bez, simple>>

fontVars == <<font, glyphset, tolerance, gid, fpc, output, compared, last>>

-----------------------------------------------------------------------------
(* Bounds *)

\* The longest path the outline source draws, in path elements.
MaxCmds == 4

\* f64 coordinate units per f32 coordinate unit.
F64PerF32 == 2

\* The most glyphs a font holds.
MaxGlyphs == 2

-----------------------------------------------------------------------------
(* Arithmetic helpers *)

Abs(x) == IF x < 0 THEN -x ELSE x

Min(a, b) == IF a < b THEN a ELSE b

RECURSIVE GCD(_, _)
GCD(a, b) == IF b = 0 THEN Abs(a) ELSE GCD(b, a % b)

LCM(a, b) == (a * b) \div GCD(a, b)

RECURSIVE LCMOf(_)
LCMOf(S) == IF S = {} THEN 1
            ELSE LET x == CHOOSE y \in S : TRUE IN LCM(x, LCMOf(S \ {x}))

RECURSIVE SeqSum(_)
SeqSum(s) == IF s = <<>> THEN 0 ELSE s[1] + SeqSum(Tail(s))

\* A reduced fraction n/d, d > 0.
Frac(n, d) ==
    LET g == GCD(n, d) IN
    IF d < 0 THEN <<(-n) \div g, (-d) \div g>> ELSE <<n \div g, d \div g>>

-----------------------------------------------------------------------------
(* Coordinates: f32 and f64 *)

\* `x as f64` of an f32 x: exact.
ToF64(x) == x * F64PerF32

\* `v as f32` of an f64 v: the nearest f32, ties to even.
ToF32(v) ==
    LET q == v \div F64PerF32
        r == v % F64PerF32
    IN  IF 2 * r < F64PerF32 THEN q
        ELSE IF 2 * r > F64PerF32 THEN q + 1
        ELSE IF q % 2 = 0 THEN q ELSE q + 1

-----------------------------------------------------------------------------
(* kurbo::PathEl *)

MoveTo(p) == [el |-> "MoveTo", pts |-> <<p>>]
LineTo(p) == [el |-> "LineTo", pts |-> <<p>>]
QuadTo(p1, p2) == [el |-> "QuadTo", pts |-> <<p1, p2>>]
CurveTo(p1, p2, p3) == [el |-> "CurveTo", pts |-> <<p1, p2, p3>>]
ClosePath == [el |-> "ClosePath", pts |-> <<>>]

-----------------------------------------------------------------------------
(* Shapes: what kurbo measures on a segment *)

Shape(len, a, b, ka, kb) ==
    [arclen |-> len, t05 |-> a, t95 |-> b, k05 |-> ka, k95 |-> kb]

\* A straight segment along d: constant tangent d, length |d|, no curvature.
Straight(d, len) == Shape(len, d, d, 0, 0)

\* A segment whose points coincide (also the placeholder of an element that
\* draws no segment).
Degenerate == Shape(0, <<0, 0>>, <<0, 0>>, 0, 0)

East == <<5, 0>>
North == <<0, 5>>
Slant == <<3, 4>>
West == <<-10, 0>>

LineShapes ==
    {Straight(East, 5), Straight(North, 5), Straight(Slant, 5),
     Straight(West, 10)}

\* A quarter turn from North to East.
Arc == Shape(10, North, East, 1, 1)
\* A curve that leaves along Slant and arrives along West.
Hook == Shape(5, Slant, West, 0, 2)

CurveShapes == {Arc, Hook}


ArcLens == {g.arclen : g \in LineShapes \union CurveShapes}

\* Scores are counted in 1/Scale of an angle unit per length unit, so that
\* anglediff / total_len is exact for every pair of lengths.
Scale == LCMOf({a + b : a \in ArcLens, b \in ArcLens})

-----------------------------------------------------------------------------
(* impl OutlinePen for Paths *)

Drawn(el, g) ==
    /\ pc = "draw"
    /\ path' = Append(path, el)
    /\ geom' = Append(geom, g)
    /\ UNCHANGED <<dom, pc, cleaned, report, total, verbs, points, backend,
                   vi, i, reads, bez, simple>>
    /\ UNCHANGED fontVars

move_to(x, y, g) == Drawn(MoveTo(<<ToF64(x), ToF64(y)>>), g)

close(g) == Drawn(ClosePath, g)

line_to(x, y, g) == Drawn(LineTo(<<ToF64(x), ToF64(y)>>), g)

quad_to(x1, y1, x2, y2, g) ==
    Drawn(QuadTo(<<ToF64(x1), ToF64(y1)>>, <<ToF64(x2), ToF64(y2)>>), g)

curve_to(cx0, cy0, cx1, cy1, x, y, g) ==
    Drawn(CurveTo(<<ToF64(cx0), ToF64(cy0)>>, <<ToF64(cx1), ToF64(cy1)>>,
                  <<ToF64(x), ToF64(y)>>), g)

-----------------------------------------------------------------------------
(* The glyph outline source: glyph.draw(settings, &mut paths) *)

\* The first point of the subpath that p ends in.
RECURSIVE StartPoint(_)
StartPoint(p) ==
    IF p = <<>> THEN <<0, 0>>
    ELSE IF p[Len(p)].el = "MoveTo" THEN p[Len(p)].pts[1]
    ELSE StartPoint(SubSeq(p, 1, Len(p) - 1))

\* The current point after the elements of p.
LastPoint(p) ==
    IF p = <<>> THEN <<0, 0>>
    ELSE LET e == p[Len(p)] IN
         IF e.el = "ClosePath" THEN StartPoint(p) ELSE e.pts[Len(e.pts)]

\* The f32 points the source draws through.
Pts == IF dom = "shape" THEN {<<0, 0>>, <<1, 0>>} ELSE {<<0, 1>>, <<2, 3>>}

Wide(p) == <<ToF64(p[1]), ToF64(p[2])>>

\* Control points: every choice in the coordinate repertoire, one in the
\* shape repertoire (a segment's shape is recorded, not derived from them).
Quads ==
    IF dom = "shape" THEN {<<<<0, 0>>, p>> : p \in Pts}
    ELSE Pts \X Pts

Cubics ==
    IF dom = "shape" THEN {<<<<0, 0>>, <<1, 0>>, p>> : p \in Pts}
    ELSE {<<<<0, 1>>, <<2, 3>>, <<0, 1>>>>, <<<<2, 3>>, <<2, 3>>, <<0, 1>>>>,
          <<<<2, 3>>, <<0, 1>>, <<2, 3>>>>}

\* The shapes a segment ending at p can have.  In the coordinate repertoire
\* nothing is measured and every shape is recorded as Degenerate.
LineShapesTo(p) ==
    IF dom = "shape" /\ Wide(p) # LastPoint(path) THEN LineShapes
    ELSE {Degenerate}

QuadShapesTo(p) ==
    IF dom = "shape" /\ Wide(p) # LastPoint(path) THEN {Arc}
    ELSE {Degenerate}

CubicShapesTo(p) ==
    IF dom # "shape" THEN {Degenerate}
    ELSE IF Wide(p) # LastPoint(path) THEN CurveShapes
    ELSE {Degenerate, Hook}

\* The closing line kurbo adds for a ClosePath away from the start point.
ClosingShapes ==
    IF dom = "shape" /\ LastPoint(path) # StartPoint(path) THEN LineShapes
    ELSE {Degenerate}

\* An outline is a sequence of contours: a move, segments, at most one close.
OpenSubpath ==
    IF path = <<>> THEN FALSE ELSE path[Len(path)].el # "ClosePath"

\* No contour is a lone move.
MayMove == IF path = <<>> THEN TRUE ELSE path[Len(path)].el # "MoveTo"

DrawMove ==
    /\ Len(path) < MaxCmds
    /\ MayMove
    /\ \E p \in Pts : move_to(p[1], p[2], Degenerate)

DrawLine ==
    /\ Len(path) < MaxCmds
    /\ OpenSubpath
    /\ \E p \in Pts : \E g \in LineShapesTo(p) : line_to(p[1], p[2], g)

DrawQuad ==
    /\ Len(path) < MaxCmds
    /\ OpenSubpath
    /\ \E q \in Quads : \E g \in QuadShapesTo(q[2]) :
           quad_to(q[1][1], q[1][2], q[2][1], q[2][2], g)

DrawCurve ==
    /\ Len(path) < MaxCmds
    /\ OpenSubpath
    /\ \E c \in Cubics : \E g \in CubicShapesTo(c[3]) :
           curve_to(c[1][1], c[1][2], c[2][1], c[2][2], c[3][1], c[3][2], g)

DrawClose ==
    /\ Len(path) < MaxCmds
    /\ OpenSubpath
    /\ \E g \in ClosingShapes : close(g)

-----------------------------------------------------------------------------
(* wonkiness.rs *)

\* The code's PI, in angle units (hundredths of a degree).
Pi == 18000

HalfPi == Pi \div 2

\* The parameters the metric samples at, in hundredths.
TIn == 95
TOut == 5

Dot(v1, v2) == v1[1] * v2[1] + v1[2] * v2[2]

Cross(v1, v2) == v1[1] * v2[2] - v1[2] * v2[1]

\* Vec2::length, for the vectors of the model (all of integer length).
Length(v) == CHOOSE r \in 0..(Abs(v[1]) + Abs(v[2])) : r * r = Dot(v, v)

\* f64::acos on the cosines the model's vectors produce.
Acos(c) ==
    CASE c = <<1, 1>> -> 0
      [] c = <<24, 25>> -> 1626
      [] c = <<4, 5>> -> 3687
      [] c = <<3, 5>> -> 5313
      [] c = <<0, 1>> -> 9000
      [] c = <<-3, 5>> -> 12687
      [] c = <<-4, 5>> -> 14313
      [] c = <<-24, 25>> -> 16374
      [] c = <<-1, 1>> -> 18000

angle_between(v1, v2) ==
    LET dot == Dot(v1, v2)
    IN  Acos(Frac(dot, Length(v1) * Length(v2)))

\* SegCurvature for PathSeg: each arm asks kurbo.
curvature(seg, t) ==
    CASE seg.kind = "Line" -> IF t = TIn THEN seg.k95 ELSE seg.k05
      [] seg.kind = "Quad" -> IF t = TIn THEN seg.k95 ELSE seg.k05
      [] seg.kind = "Cubic" -> IF t = TIn THEN seg.k95 ELSE seg.k05

tangent(seg, t) ==
    CASE seg.kind = "Line" -> IF t = TIn THEN seg.t95 ELSE seg.t05
      [] seg.kind = "Quad" -> IF t = TIn THEN seg.t95 ELSE seg.t05
      [] seg.kind = "Cubic" -> IF t = TIn THEN seg.t95 ELSE seg.t05

\* seg.arclen(0.1)
arclen(seg) == seg.arclen

Seg(kind, g) ==
    [kind |-> kind, arclen |-> g.arclen, t05 |-> g.t05, t95 |-> g.t95,
     k05 |-> g.k05, k95 |-> g.k95]

\* BezPath::segments: one segment per drawing element, and for a ClosePath
\* a line back to the start point when the current point is elsewhere.
RECURSIVE SegmentsUpTo(_, _, _)
SegmentsUpTo(pth, gm, k) ==
    IF k = 0 THEN <<>>
    ELSE LET before == SegmentsUpTo(pth, gm, k - 1)
             prefix == SubSeq(pth, 1, k - 1)
             e == pth[k]
         IN  CASE e.el = "MoveTo" -> before
               [] e.el = "LineTo" -> Append(before, Seg("Line", gm[k]))
               [] e.el = "QuadTo" -> Append(before, Seg("Quad", gm[k]))
               [] e.el = "CurveTo" -> Append(before, Seg("Cubic", gm[k]))
               [] e.el = "ClosePath" ->
                      IF LastPoint(prefix) # StartPoint(prefix)
                      THEN Append(before, Seg("Line", gm[k]))
                      ELSE before

Segments(pth, gm) == SegmentsUpTo(pth, gm, Len(pth))

\* Mutant: every subpath is taken to be closed.
is_closed_always(pth) == TRUE

is_closed(pth) ==
    IF pth = <<>> THEN FALSE ELSE pth[Len(pth)].el = "ClosePath"

NonDegenerate(seg) == arclen(seg) > 0

\* Iterator adaptors.
Zip(a, b) == [k \in 1..Min(Len(a), Len(b)) |-> <<a[k], b[k]>>]

Skip(s, n) == SubSeq(s, n + 1, Len(s))

\* The first n items of s.iter().cycle(); nothing when s is empty.
Cycle(s, n) ==
    IF s = <<>> THEN <<>> ELSE [k \in 1..n |-> s[((k - 1) % Len(s)) + 1]]

\* Mutant: a closed subpath is paired like an open one (no cycle()).
pairs_of_no_cycle(segs, closed) == Zip(segs, Skip(segs, 1))

pairs_of(segs, closed) ==
    IF closed THEN Zip(segs, Skip(Cycle(segs, Len(segs) + 1), 1))
    ELSE Zip(segs, Skip(segs, 1))

\* f64::round of n/d for n >= 0, d > 0: halves away from zero.
Round(n, d) == (2 * n + d) \div (2 * d)

\* Mutant: the deviation is measured from zero, not from the nearest
\* multiple of a right angle.
anglediff_from_zero(angle) == Abs(angle)

anglediff_of(angle) == Abs(angle - Round(angle, HalfPi) * HalfPi)

contribution(seg, next_seg) ==
    LET in_curvature == curvature(seg, TIn)
        out_curvature == curvature(next_seg, TOut)
        curvaturediff == Abs(in_curvature - out_curvature)
        in_tangent == tangent(seg, TIn)
        out_tangent == tangent(next_seg, TOut)
        angle == angle_between(out_tangent, in_tangent)
        anglediff == anglediff_of(angle)
        total_len == arclen(seg) + arclen(next_seg)
    IN  (1 + curvaturediff) * ((anglediff * Scale) \div total_len)

\* wonkiness(path), with what it computed on the way.
wonk_report(pth, gm) ==
    LET closed == is_closed(pth)
        segs == SelectSeq(Segments(pth, gm), NonDegenerate)
        pairs == pairs_of(segs, closed)
        contribs == [k \in 1..Len(pairs) |-> contribution(pairs[k][1], pairs[k][2])]
    IN  [closed |-> closed, segs |-> segs, pairs |-> pairs,
         contribs |-> contribs, path_wonk |-> SeqSum(contribs)]

wonkiness(pth, gm) == wonk_report(pth, gm).path_wonk

-----------------------------------------------------------------------------
(* Paths::wonkiness *)

\* The loop over self.path.elements(): a MoveTo opens a new BezPath, every
\* element is pushed on the last one; unwrap fails when there is none.
RECURSIVE SplitFrom(_, _, _, _)
SplitFrom(pth, gm, k, acc) ==
    IF k > Len(pth) THEN [ok |-> TRUE, subs |-> acc]
    ELSE LET opened == IF pth[k].el = "MoveTo"
                       THEN Append(acc, [path |-> <<>>, geom |-> <<>>])
                       ELSE acc
         IN  IF opened = <<>> THEN [ok |-> FALSE, subs |-> acc]
             ELSE SplitFrom(pth, gm, k + 1,
                     [opened EXCEPT ![Len(opened)] =
                         [path |-> Append(@.path, pth[k]),
                          geom |-> Append(@.geom, gm[k])]])

Split(pth, gm) == SplitFrom(pth, gm, 1, <<>>)

\* Mutant: the path is measured as one subpath, without splitting.
Paths_wonkiness_unsplit(pth, gm) == wonkiness(pth, gm)

Paths_wonkiness(pth, gm) ==
    LET c == Split(pth, gm).subs
    IN  SeqSum([k \in 1..Len(c) |-> wonkiness(c[k].path, c[k].geom)])

\* compare_glyph's first call of paths.wonkiness(), on the drawn path.
Score ==
    /\ pc = "draw"
    /\ LET c == Split(path, geom) IN
       IF c.ok
       THEN /\ cleaned' = c.subs
            /\ report' = [k \in 1..Len(c.subs) |->
                             wonk_report(c.subs[k].path, c.subs[k].geom)]
            /\ total' = Paths_wonkiness(path, geom)
            /\ pc' = "scored"
       ELSE /\ pc' = "panic"
            /\ UNCHANGED <<cleaned, report, total>>
    /\ UNCHANGED <<dom, path, geom, verbs, points, backend, vi, i, reads, bez,
                   simple>>
    /\ UNCHANGED fontVars

-----------------------------------------------------------------------------
(* The backend path: skia_safe::Path *)

\* The backend's verb codes, as skia_path_to_bezpath matches them.
VerbMove == 0
VerbLine == 1
VerbQuad == 2
VerbCubic == 4
VerbClose == 5

LastOf(s) == s[Len(s)]

\* skia_safe::Path::new()
SkNew == [verbs |-> <<>>, points |-> <<>>, lastMove |-> <<0, 0>>]

SkPut(sk, verb, pts) ==
    [sk EXCEPT !.verbs = Append(@, verb), !.points = @ \o pts]

SkMoveTo(sk, p) == [SkPut(sk, VerbMove, <<p>>) EXCEPT !.lastMove = p]

\* The backend starts a contour by itself when a segment is added to a path
\* that is empty or was just closed.
SkInjectMove(sk) ==
    IF sk.verbs = <<>> THEN SkMoveTo(sk, sk.lastMove)
    ELSE IF LastOf(sk.verbs) = VerbClose THEN SkMoveTo(sk, sk.lastMove)
    ELSE sk

SkLineTo(sk, p) == SkPut(SkInjectMove(sk), VerbLine, <<p>>)

SkQuadTo(sk, p1, p2) == SkPut(SkInjectMove(sk), VerbQuad, <<p1, p2>>)

SkCubicTo(sk, p1, p2, p3) == SkPut(SkInjectMove(sk), VerbCubic, <<p1, p2, p3>>)

\* close() adds nothing to an empty path or after another close.
SkClose(sk) ==
    IF sk.verbs = <<>> THEN sk
    ELSE IF LastOf(sk.verbs) = VerbClose THEN sk
    ELSE SkPut(sk, VerbClose, <<>>)

-----------------------------------------------------------------------------
(* bezpath_to_skia_path *)

\* Mutant: x and y exchanged on the way to the backend.
NarrowSwapped(p) == <<ToF32(p[2]), ToF32(p[1])>>

\* (p.x as f32, p.y as f32)
Narrow(p) == <<ToF32(p[1]), ToF32(p[2])>>

RECURSIVE SkiaUpTo(_, _)
SkiaUpTo(b, k) ==
    IF k = 0 THEN SkNew
    ELSE LET sk == SkiaUpTo(b, k - 1)
             e == b[k]
         IN  CASE e.el = "MoveTo" -> SkMoveTo(sk, Narrow(e.pts[1]))
               [] e.el = "LineTo" -> SkLineTo(sk, Narrow(e.pts[1]))
               [] e.el = "QuadTo" ->
                      SkQuadTo(sk, Narrow(e.pts[1]), Narrow(e.pts[2]))
               [] e.el = "CurveTo" ->
                      SkCubicTo(sk, Narrow(e.pts[1]), Narrow(e.pts[2]),
                                Narrow(e.pts[3]))
               [] e.el = "ClosePath" -> SkClose(sk)

bezpath_to_skia_path(b) ==
    LET sk == SkiaUpTo(b, Len(b)) IN [verbs |-> sk.verbs, points |-> sk.points]

-----------------------------------------------------------------------------
(* skia_safe::simplify *)

\* Points a verb owns in the point buffer.
VerbPoints(verb) ==
    CASE verb = VerbMove -> 1
      [] verb = VerbLine -> 1
      [] verb = VerbQuad -> 2
      [] verb = VerbCubic -> 3
      [] verb = VerbClose -> 0

RECURSIVE PointsIn(_)
PointsIn(vs) == IF vs = <<>> THEN 0 ELSE VerbPoints(vs[1]) + PointsIn(Tail(vs))

\* The path without its first contour.
SkRest(sk) ==
    LET later == {k \in 2..Len(sk.verbs) : sk.verbs[k] = VerbMove} IN
    IF later = {} THEN [verbs |-> <<>>, points |-> <<>>]
    ELSE LET k == CHOOSE m \in later : \A n \in later : m <= n
             used == PointsIn(SubSeq(sk.verbs, 1, k - 1))
         IN  [verbs |-> SubSeq(sk.verbs, k, Len(sk.verbs)),
              points |-> SubSeq(sk.points, used + 1, Len(sk.points))]

\* What the backend may return for sk: the path as it is (nothing overlaps),
\* the path with a contour removed, or an empty path.
SimplifyResults(sk) == {sk, SkRest(sk), [verbs |-> <<>>, points |-> <<>>]}

-----------------------------------------------------------------------------
(* Paths::remove_overlaps and skia_path_to_bezpath *)

\* Mutant: the fallback is a new, empty path.
FallbackEmpty(pth) == <<>>

\* unwrap_or(self.path.clone())
Fallback(pth) == pth

\* remove_overlaps up to the backend's answer: no result, and the clone of
\* the path is returned; or a result, and skia_path_to_bezpath starts on it.
Simplify ==
    /\ pc = "draw"
    /\ LET skia_path == bezpath_to_skia_path(path) IN
       \/ /\ backend' = "None"
          /\ simple' = Fallback(path)
          /\ pc' = "done"
          /\ UNCHANGED <<verbs, points, vi, i, reads, bez>>
       \/ \E out \in SimplifyResults(skia_path) :
             /\ backend' = "Some"
             /\ verbs' = out.verbs
             /\ points' = out.points
             /\ vi' = 0
             /\ i' = 0
             /\ reads' = <<>>
             /\ bez' = <<>>
             /\ pc' = "walk"
             /\ UNCHANGED simple
    /\ UNCHANGED <<dom, path, geom, cleaned, report, total>>
    /\ UNCHANGED fontVars

\* (points[k].x as f64, points[k].y as f64), k counted from 0
WidePoint(k) == <<ToF64(points[k + 1][1]), ToF64(points[k + 1][2])>>

\* Mutant: a quadratic advances the point index by one.
AdvanceQuadByOne(verb) ==
    CASE verb = VerbMove -> 1
      [] verb = VerbLine -> 1
      [] verb = VerbQuad -> 1
      [] verb = VerbCubic -> 3
      [] OTHER -> 0

\* i += ... in each arm of the match
Advance(verb) ==
    CASE verb = VerbMove -> 1
      [] verb = VerbLine -> 1
      [] verb = VerbQuad -> 2
      [] verb = VerbCubic -> 3
      [] OTHER -> 0

\* The highest offset from i that the verb's arm indexes points at, plus one.
Indexed(verb) ==
    CASE verb = VerbMove -> 1
      [] verb = VerbLine -> 1
      [] verb = VerbQuad -> 2
      [] verb = VerbCubic -> 3
      [] OTHER -> 0

\* One iteration of `for verb in verbs`.
WalkStep ==
    /\ pc = "walk"
    /\ vi < Len(verbs)
    /\ LET verb == verbs[vi + 1] IN
       IF i + Indexed(verb) > Len(points)
       THEN \* index out of bounds
            /\ pc' = "panic"
            /\ UNCHANGED <<vi, i, reads, bez>>
       ELSE /\ bez' =
                 CASE verb = VerbMove -> Append(bez, MoveTo(WidePoint(i)))
                   [] verb = VerbLine -> Append(bez, LineTo(WidePoint(i)))
                   [] verb = VerbQuad ->
                          Append(bez, QuadTo(WidePoint(i), WidePoint(i + 1)))
                   [] verb = VerbCubic ->
                          Append(bez, CurveTo(WidePoint(i), WidePoint(i + 1),
                                              WidePoint(i + 2)))
                   [] verb = VerbClose -> Append(bez, ClosePath)
                   [] OTHER -> bez
            /\ reads' = reads \o [k \in 1..Indexed(verb) |-> i + k - 1]
            /\ i' = i + Advance(verb)
            /\ vi' = vi + 1
            /\ pc' = pc
    /\ UNCHANGED <<dom, path, geom, cleaned, report, total, verbs, points,
                   backend, simple>>
    /\ UNCHANGED fontVars

\* The loop is over: skia_path_to_bezpath returns bez, remove_overlaps wraps it.
WalkDone ==
    /\ pc = "walk"
    /\ vi = Len(verbs)
    /\ simple' = bez
    /\ pc' = "done"
    /\ UNCHANGED <<dom, path, geom, cleaned, report, total, verbs, points,
                   backend, vi, i, reads, bez>>
    /\ UNCHANGED fontVars

-----------------------------------------------------------------------------
(* main.rs: compare_glyph's decision *)

\* An f32 result: a finite value n/d, +infinity, or NaN.
Num(n, d) == [kind |-> "num", n |-> Frac(n, d)[1], d |-> Frac(n, d)[2]]
PosInf == [kind |-> "inf", n |-> 1, d |-> 0]
NaN == [kind |-> "nan", n |-> 0, d |-> 0]
Zero == Num(0, 1)

\* a / b for scores a, b >= 0, as IEEE divides.
FDiv(a, b) ==
    IF b # 0 THEN Num(a, b)
    ELSE IF a > 0 THEN PosInf
    ELSE NaN

\* (x - 1.0) * 100.0
Percent(x) ==
    IF x.kind = "num" THEN Num(100 * (x.n - x.d), x.d) ELSE x

\* Mutant: the tolerance is left out of the comparison.
decision_without_tolerance(before, after, tol) ==
    IF after > before THEN Percent(FDiv(after, before)) ELSE Zero

\* The if at the end of compare_glyph; tol is the tolerance in percent, so
\* that 1.0 + tolerance is (100 + tol) / 100.
decision(before, after, tol) ==
    IF after * 100 > before * (100 + tol)
    THEN Percent(FDiv(after, before))
    ELSE Zero

-----------------------------------------------------------------------------
(* main.rs: test_font *)

Names == {"a", "b"}

\* What looking a glyph up gives: an outline that draws, a composite, a glyf
\* entry that cannot be read, no outline, or an outline that fails to draw.
Kinds == {"simple", "composite", "unreadable", "no_outline", "undrawable"}

Glyphs == [name : Names, kind : Kinds]

\* The tolerances tried, in percent.
Tolerances == {0, 25}

\* The scores the metric may return for a glyph, before and after.
Scores == {0, 10, 11, 13}

glyphcount == Len(font)

Glyph == font[gid + 1]

\* glyphs_to_check.len() > 0 && !glyphs_to_check.contains(&glyphname)
NotToCheck(g) == glyphset # {} /\ g.name \notin glyphset

\* comparison > 0.0 && comparison < 1000.0
Printed(c) == c.kind = "num" /\ c.n > 0 /\ c.n < 1000 * c.d

InLoop == fpc = "loop" /\ gid < glyphcount

Continue ==
    /\ gid' = gid + 1
    /\ UNCHANGED <<font, glyphset, tolerance, fpc, output, compared, last>>
    /\ UNCHANGED pipeVars

Panic ==
    /\ fpc' = "panic"
    /\ UNCHANGED <<font, glyphset, tolerance, gid, output, compared, last>>
    /\ UNCHANGED pipeVars

\* The glyph is not in the allow-list: continue.
SkipUnlisted ==
    /\ InLoop
    /\ NotToCheck(Glyph)
    /\ Continue

\* get_glyf(..).expect("Couldn't read a glyph")
ReadFails ==
    /\ InLoop
    /\ ~NotToCheck(Glyph)
    /\ Glyph.kind = "unreadable"
    /\ Panic

\* matches!(glyph, Some(Glyph::Composite(_))): continue.
SkipComposite ==
    /\ InLoop
    /\ ~NotToCheck(Glyph)
    /\ Glyph.kind = "composite"
    /\ Continue

\* compare_glyph: outlines.get(glyph_id).unwrap()
OutlineMissing ==
    /\ InLoop
    /\ ~NotToCheck(Glyph)
    /\ Glyph.kind = "no_outline"
    /\ Panic

\* compare_glyph: glyph.draw(..).expect("Couldn't draw glyph")
DrawFails ==
    /\ InLoop
    /\ ~NotToCheck(Glyph)
    /\ Glyph.kind = "undrawable"
    /\ Panic

\* compare_glyph returns, and test_font prints the line or not.
CompareGlyph ==
    /\ InLoop
    /\ ~NotToCheck(Glyph)
    /\ Glyph.kind = "simple"
    /\ \E total_wonkiness_before \in Scores, total_wonkiness_after \in Scores :
          LET comparison == decision(total_wonkiness_before,
                                     total_wonkiness_after, tolerance)
          IN  /\ last' = [called |-> TRUE, gid |-> gid,
                          before |-> total_wonkiness_before,
                          after |-> total_wonkiness_after,
                          result |-> comparison]
              /\ output' = IF Printed(comparison)
                           THEN Append(output, [gid |-> gid,
                                                name |-> Glyph.name,
                                                value |-> comparison])
                           ELSE output
    /\ compared' = compared \union {gid}
    /\ gid' = gid + 1
    /\ UNCHANGED <<font, glyphset, tolerance, fpc>>
    /\ UNCHANGED pipeVars

\* The for loop is over.
LoopEnd ==
    /\ fpc = "loop"
    /\ gid = glyphcount
    /\ fpc' = "done"
    /\ UNCHANGED <<font, glyphset, tolerance, gid, output, compared, last>>
    /\ UNCHANGED pipeVars

-----------------------------------------------------------------------------
(* Initial states *)

NoCall ==
    [called |-> FALSE, gid |-> 0, before |-> 0, after |-> 0, result |-> Zero]

InitPipe(d) ==
    /\ dom = d
    /\ path = <<>>
    /\ geom = <<>>
    /\ pc = "draw"
    /\ cleaned = <<>>
    /\ report = <<>>
    /\ total = 0
    /\ verbs = <<>>
    /\ points = <<>>
    /\ backend = "None"
    /\ vi = 0
    /\ i = 0
    /\ reads = <<>>
    /\ bez = <<>>
    /\ simple = <<>>

IdleFont ==
    /\ font = <<>>
    /\ glyphset = {}
    /\ tolerance = 0
    /\ gid = 0
    /\ fpc = "done"
    /\ output = <<>>
    /\ compared = {}
    /\ last = NoCall

InitWonk == InitPipe("shape") /\ IdleFont

NextWonk ==
    \/ DrawMove
    \/ DrawLine
    \/ DrawQuad
    \/ DrawCurve
    \/ DrawClose
    \/ Score

\* Drawing a glyph and measuring it.
SpecWonk == InitWonk /\ [][NextWonk]_vars


InitConv == InitPipe("coord") /\ IdleFont

NextConv ==
    \/ DrawMove
    \/ DrawLine
    \/ DrawQuad
    \/ DrawCurve
    \/ DrawClose
    \/ Simplify
    \/ WalkStep
    \/ WalkDone

\* Drawing a glyph and removing its overlaps.
SpecConv == InitConv /\ [][NextConv]_vars

InitFont ==
    /\ InitPipe("coord")
    /\ font \in UNION {[1..n -> Glyphs] : n \in 0..MaxGlyphs}
    /\ glyphset \in SUBSET Names
    /\ tolerance \in Tolerances
    /\ gid = 0
    /\ fpc = "loop"
    /\ output = <<>>
    /\ compared = {}
    /\ last = NoCall

NextFont ==
    \/ SkipUnlisted
    \/ ReadFails
    \/ SkipComposite
    \/ OutlineMissing
    \/ DrawFails
    \/ CompareGlyph
    \/ LoopEnd

\* test_font over one font.
SpecFont == InitFont /\ [][NextFont]_vars

-----------------------------------------------------------------------------
(* Properties of the metric (SpecWonk) *)

Scored == pc = "scored"

SubClosed(k) == cleaned[k].path[Len(cleaned[k].path)].el = "ClosePath"

\* Tangents that continue straight, turn back, or meet at a right angle.
Canonical(a, b) == Dot(a, b) = 0 \/ Cross(a, b) = 0

JunctionCanonical(pair) == Canonical(pair[1].t95, pair[2].t05)

\* C3 as stated: a subpath, open or closed, with fewer than 2 non-degenerate
\* segments has wonkiness 0.
C3_AsStated ==
    Scored =>
        \A k \in 1..Len(report) :
            Len(report[k].segs) < 2 => report[k].path_wonk = 0

\* C3 as amended: an open subpath with fewer than 2 non-degenerate segments,
\* and a closed subpath with none, has wonkiness 0; a closed subpath with
\* exactly one non-degenerate segment s forms the pair (s, s), and its
\* wonkiness is 0 exactly when the tangent at the end of s and the tangent at
\* its start meet at a canonical angle.
C3_FewSegments ==
    Scored =>
        \A k \in 1..Len(report) :
            LET r == report[k]
                n == Len(r.segs)
            IN  /\ (n < 2 /\ (~SubClosed(k) \/ n = 0)) => r.path_wonk = 0
                /\ (n = 1 /\ SubClosed(k)) =>
                       /\ r.pairs = <<<<r.segs[1], r.segs[1]>>>>
                       /\ (r.path_wonk = 0) <=>
                              Canonical(r.segs[1].t95, r.segs[1].t05)

\* An open subpath whose only non-degenerate segment is a curve that a closed
\* subpath would score, beside a degenerate one that was filtered out.
C3_Witness ==
    /\ Scored
    /\ \E k \in 1..Len(report) :
           /\ ~SubClosed(k)
           /\ Len(cleaned[k].path) = 3
           /\ Len(report[k].segs) = 1
           /\ ~Canonical(report[k].segs[1].t95, report[k].segs[1].t05)
           /\ report[k].path_wonk = 0

C8_Pairing ==
    Scored =>
        \A k \in 1..Len(report) :
            LET r == report[k]
                n == Len(r.segs)
            IN  IF SubClosed(k)
                THEN /\ Len(r.pairs) = n
                     /\ \A j \in 1..n :
                            r.pairs[j] = <<r.segs[j], r.segs[(j % n) + 1]>>
                ELSE /\ Len(r.pairs) = (IF n = 0 THEN 0 ELSE n - 1)
                     /\ \A j \in 1..(n - 1) :
                            r.pairs[j] = <<r.segs[j], r.segs[j + 1]>>

\* A closed subpath of three different segments whose last is paired with
\* its first.
C8_Witness ==
    /\ Scored
    /\ \E k \in 1..Len(report) :
           LET r == report[k] IN
           /\ SubClosed(k)
           /\ Len(r.segs) = 3
           /\ r.segs[3] # r.segs[1]
           /\ r.pairs[3] = <<r.segs[3], r.segs[1]>>

MoveCount(pth) == Cardinality({k \in 1..Len(pth) : pth[k].el = "MoveTo"})

RECURSIVE Concat(_)
Concat(ss) == IF ss = <<>> THEN <<>> ELSE ss[1].path \o Concat(Tail(ss))

\* C10: the path is split at every MoveTo: one subpath per MoveTo, each
\* starting with its MoveTo and holding no other, in order and with nothing
\* lost; the score is the sum of the subpaths' wonkiness.
C10_Split ==
    Scored =>
        /\ Len(cleaned) = MoveCount(path)
        /\ \A k \in 1..Len(cleaned) :
               /\ cleaned[k].path[1].el = "MoveTo"
               /\ MoveCount(cleaned[k].path) = 1
        /\ Concat(cleaned) = path
        /\ total = SeqSum([k \in 1..Len(cleaned) |->
                              wonkiness(cleaned[k].path, cleaned[k].geom)])

\* Two subpaths, one of which is wonky, whose segments would form a wonky
\* junction if they were one subpath.
C10_Witness ==
    /\ Scored
    /\ Len(cleaned) = 2
    /\ total > 0
    /\ wonkiness(path, geom) # total

-----------------------------------------------------------------------------
(* Properties of the conversion (SpecConv) *)

\* C5: when the backend returns no result, remove_overlaps returns at once a
\* path equal to the original, without failing; and from the call on, whatever
\* the backend returns, the original path is never changed.
C5_BestEffort ==
    [][/\ (pc' # "draw" => path' = path)
       /\ (pc = "draw" /\ backend' = "None" /\ pc' # "draw")
              => (pc' = "done" /\ simple' = path)]_vars

\* The backend gave no result for a path of two contours, and the returned
\* path is the original.
C5_Witness ==
    /\ pc = "done"
    /\ backend = "None"
    /\ Len(path) = MaxCmds
    /\ MoveCount(path) = 2
    /\ simple = path

\* C6: a drawn path converted to the backend representation and converted
\* back as it is comes out with the same elements in the same order and the
\* same coordinates.
C6_RoundTrip ==
    (/\ pc = "done"
     /\ backend = "Some"
     /\ [verbs |-> verbs, points |-> points] = bezpath_to_skia_path(path))
    => simple = path

\* A round trip of a path that holds every kind of element.
C6_Witness ==
    /\ pc = "done"
    /\ backend = "Some"
    /\ [verbs |-> verbs, points |-> points] = bezpath_to_skia_path(path)
    /\ \E k \in 1..Len(path) : path[k].el = "QuadTo"
                                  /\ path[k].pts[1] # path[k].pts[2]
    /\ \E k \in 1..Len(path) : path[k].el = "CurveTo"
    /\ \E k \in 1..Len(path) : path[k].el = "ClosePath"
    /\ simple = path

ElOfVerb(verb) ==
    CASE verb = VerbMove -> "MoveTo"
      [] verb = VerbLine -> "LineTo"
      [] verb = VerbQuad -> "QuadTo"
      [] verb = VerbCubic -> "CurveTo"
      [] verb = VerbClose -> "ClosePath"

\* C9: the walk over the verb buffer never indexes past the point buffer;
\* it has read the points before i, each once and in buffer order; it has
\* produced one element per verb walked, of the verb's kind and holding the
\* 1, 1, 2, 3 or 0 points the verb owns; and when it ends, i is the point
\* count and the output has one element per verb.
C9_Walk ==
    /\ pc # "panic"
    /\ (pc = "walk" \/ (pc = "done" /\ backend = "Some")) =>
           /\ i <= Len(points)
           /\ reads = [k \in 1..i |-> k - 1]
           /\ Len(bez) = vi
           /\ \A k \in 1..vi :
                  /\ bez[k].el = ElOfVerb(verbs[k])
                  /\ Len(bez[k].pts) = VerbPoints(verbs[k])
           /\ i = PointsIn(SubSeq(verbs, 1, vi))
    /\ (pc = "done" /\ backend = "Some") =>
           /\ i = Len(points)
           /\ Len(simple) = Len(verbs)

\* A finished walk over a move, a quadratic, a cubic and a close.
C9_Witness ==
    /\ pc = "done"
    /\ backend = "Some"
    /\ verbs = <<VerbMove, VerbQuad, VerbCubic, VerbClose>>
    /\ i = Len(points)
    /\ Len(simple) = Len(verbs)

-----------------------------------------------------------------------------
(* Properties of the comparison loop (SpecFont) *)

\* C1: with before-score b, after-score a and tolerance t, compare_glyph
\* reports (a/b - 1) * 100 when a > b * (1 + t), and 0 otherwise; 10, 11 and
\* 0.25 give 0, and 10, 13 and 0.25 give 30.  (For b = 0 the quotient is
\* IEEE's +infinity, and so is the value reported.)
C1_DecisionRule ==
    last.called =>
        LET b == last.before
            a == last.after
            r == last.result
            over == a * 100 > b * (100 + tolerance)
        IN  /\ (over /\ b > 0) =>
                   /\ r.kind = "num"
                   /\ r.d > 0
                   /\ r.n * b = 100 * (a - b) * r.d
            /\ (over /\ b = 0) => r.kind = "inf"
            /\ ~over => (r.kind = "num" /\ r.n = 0)
            /\ (b = 10 /\ a = 11 /\ tolerance = 25) => r = Num(0, 1)
            /\ (b = 10 /\ a = 13 /\ tolerance = 25) => r = Num(30, 1)

\* With tolerance 0.25, a glyph going from 10 to 13 was reported at 30 and
\* the next one, going from 10 to 11, at 0.
C1_Witness ==
    /\ tolerance = 25
    /\ last.called
    /\ last.before = 10
    /\ last.after = 11
    /\ last.result = Num(0, 1)
    /\ Len(output) = 1
    /\ output[1].value = Num(30, 1)

\* C2 as stated: a glyph whose before-score is 0 and whose after-score is
\* positive is printed, whatever the tolerance.
C2_AsStated ==
    (last.called /\ last.before = 0 /\ last.after > 0) =>
        \E k \in 1..Len(output) : output[k].gid = last.gid

\* C7 as stated: when test_font is over, every glyph that is in the
\* allow-list and is not a composite or unresolvable has been compared: a
\* glyph that cannot be resolved only skips itself.
C7_AsStated ==
    fpc # "loop" =>
        \A g \in 0..(glyphcount - 1) :
            (~NotToCheck(font[g + 1]) /\ font[g + 1].kind = "simple")
                => g \in compared

=============================================================================
